---- MODULE Spec2Model ----
(***************************************************************************)
(* A model of src/watson.py: the EM fit of a mixture of Watson             *)
(* distributions (wmm_fit) with its initialisers, its Expectation and      *)
(* Maximization steps, the convergence check and the history bookkeeping.  *)
(*                                                                         *)
(* Abstractions.                                                           *)
(*  - Floating point arrays are not computed.  An array is a record that   *)
(*    says how it was made: its kind, its shape, the data it was built     *)
(*    from (spiral heights, random draws) and the number of Maximization   *)
(*    steps applied to it (ver).  e_step and m_step are deterministic      *)
(*    functions of (X, mu, kappa, pi), so two arrays with the same record  *)
(*    hold the same numbers.                                               *)
(*  - The observation set X is its dimensionality p, the log-likelihood    *)
(*    landscape X.llh (the value e_step returns after 0, 1, 2, ...         *)
(*    Maximization steps) and X.ev, which fixes the leading eigenvalues    *)
(*    m_step finds.  Log-likelihoods are small integers; for k >= 1 they   *)
(*    are finite whenever convergence() reads them, since numpy.linalg.eig *)
(*    raises on the non-finite responsibilities a non-finite value comes   *)
(*    with.  For k = 0 e_step returns -inf, which is modelled.             *)
(*  - Eigenvalues are in thousandths (995 is 0.995); ratios are pairs      *)
(*    <<numerator, denominator>> with a positive denominator.              *)
(*  - numpy's process-wide generator is a counter modulo RngMod.           *)
(*  - gamma (the regularisation factor) keeps its default 0, N >= 1.       *)
(***************************************************************************)
EXTENDS Integers, Sequences, FiniteSets, TLC

\* ---------------------------------------------------------------- bounds
\* k ranges over -1 .. MaxK, maxiter over 1 .. MaxIter, the generator has
\* RngMod states.
MaxK == 2
MaxIter == 3
RngMod == 2

NoSeed == -1
Seeds == {NoSeed, 0, 1}
Dims == {2, 3}
Modes == {"dict", "spiral", "random", "none"}
LlhVals == {-1, 0, 1}
TolVals == {<<-3, 2>>, <<0, 1>>, <<3, 2>>}
EvSeq == <<600, 995, 1000>>
NegInf == -1000000
RngStates == 0 .. (RngMod - 1)

\* ------------------------------------------------------------- rationals
Abs(n) == IF n < 0 THEN -n ELSE n
RatLess(a, b) == a[1] * b[2] < b[1] * a[2]
RatEq(a, b) == a[1] * b[2] = b[1] * a[2]
RatSub(a, b) == <<a[1] * b[2] - b[1] * a[2], a[2] * b[2]>>
RatDivInt(a, n) == <<a[1], a[2] * n>>
RatMulInt(n, a) == <<n * a[1], a[2]>>

\* ---------------------------------------------------------------- arrays
Arr(kind, data, rows, cols, ver) ==
  [kind |-> kind, data |-> data, rows |-> rows, cols |-> cols, ver |-> ver]
NoArr == Arr("none", <<>>, 0, 0, 0)
np_zeros(rows, cols) == Arr("zeros", <<>>, rows, cols, 0)
np_ones(k) == Arr("ones", <<>>, k, 1, 0)
Cells == {"init_mu", "init_kappa", "init_pi", "mu", "kappa", "pi"}

VARIABLES
  pc,        \* where wmm_fit is: call, init, e_step, m_step, check, return, done, error
  args,      \* k, maxiter, tol, seed, init, q (columns of init['mu'])
  X,         \* the observation set
  rng,       \* numpy's process-wide generator state
  heap,      \* the arrays: the caller's init dict and wmm_fit's working arrays
  ref,       \* which array the locals mu, kappa, pi are bound to
  llh, Mu, Kappa, Pi, Bounds,   \* the history buffers
  iter, converged,
  beta,      \* e_step's responsibilities
  bounds,    \* m_step's bound triples
  r_args,    \* the r each component's bound functions were called with
  state,     \* INIT, ITERATING, CONVERGED, MAX_ITER_REACHED
  err,       \* the exception raised, "" when none
  out,       \* what wmm_fit returned
  pre,       \* what was visible outside the call when it started
  mu0,       \* the parameters the initialiser produced
  llh_under, \* the parameters each llh entry was computed under
  e_calls,   \* how many times e_step was entered
  prev       \* the previous call of wmm_fit, when there was one

vars == <<pc, args, X, rng, heap, ref, llh, Mu, Kappa, Pi, Bounds, iter,
          converged, beta, bounds, r_args, state, err, out, pre, mu0,
          llh_under, e_calls, prev>>

\* ---------------------------------------------- the process-wide generator
np_random_seed_ignored(s, seed) == {s}
\* np.random.seed(seed): an integer seed fixes the state, None reseeds it
\* from the operating system's entropy.
np_random_seed(s, seed) ==
  IF seed = NoSeed THEN RngStates ELSE {seed % RngMod}

RngOutput(s) == s
RngAdvance(s) == (s + 1) % RngMod

RECURSIVE np_random_normal(_, _)
\* n draws from state s: <<the draws, the state after them>>
np_random_normal(s, n) ==
  IF n <= 0 THEN <<<<>>, s>>
  ELSE LET rest == np_random_normal(RngAdvance(s), n - 1)
       IN <<(<< <<RngOutput(s), 1>> >>) \o rest[1], rest[2]>>

\* ------------------------------------------------------------ initialisers
\* An initialiser's result: the exception it raised or its three arrays and
\* the generator state it leaves.
InitResult(e, mu, kappa, pi, s) ==
  [err |-> e, mu |-> mu, kappa |-> kappa, pi |-> pi, rng |-> s]

random_init(k, p, s) ==
  IF k < 0 THEN InitResult("ValueError", NoArr, NoArr, NoArr, s)
  ELSE LET d == np_random_normal(s, k * p)
       IN InitResult("", Arr("random", d[1], k, p, 0), np_ones(k),
                     Arr("ones/k", <<>>, k, 1, 0), d[2])

\* cos(phi) of direction i (0-based), the third coordinate of mu[i]:
\* phi = arccos(1 - 2*indices/(2*k)), indices = i + 0.5
spiral_z_full(i, k) ==
  RatSub(<<1, 1>>, RatDivInt(RatMulInt(2, <<2 * i + 1, 2>>), k))
spiral_z(i, k) ==
  RatSub(<<1, 1>>, RatDivInt(RatMulInt(2, <<2 * i + 1, 2>>), 2 * k))

golden_spiral_init(k, s) ==
  IF k < 0 THEN InitResult("ValueError", NoArr, NoArr, NoArr, s)
  ELSE InitResult("", Arr("spiral", [j \in 1 .. k |-> spiral_z(j - 1, k)], k, 3, 0),
                  np_ones(k), Arr("ones/k", <<>>, k, 1, 0), s)

\* With an init dict wmm_fit copies the caller's three arrays.
init_from_dict_aliased(h) ==
  [heap |-> h, ref |-> [mu |-> "init_mu", kappa |-> "init_kappa", pi |-> "init_pi"]]
init_from_dict(h) ==
  [heap |-> [h EXCEPT !["mu"] = h["init_mu"], !["kappa"] = h["init_kappa"],
                      !["pi"] = h["init_pi"]],
   ref |-> [mu |-> "mu", kappa |-> "kappa", pi |-> "pi"]]

\* ------------------------------------------------------- Expectation step
\* The log-likelihood of X under parameters that went through ver
\* Maximization steps.
LlhAt(x, ver) == x.llh[IF ver + 1 <= Len(x.llh) THEN ver + 1 ELSE Len(x.llh)]

e_step(x, mu, kappa, pi, k, p) ==
  IF k < 0 THEN [err |-> "ValueError", llh |-> 0, beta |-> NoArr]
  ELSE IF k >= 1 /\ mu.cols # p THEN [err |-> "ValueError", llh |-> 0, beta |-> NoArr]
  ELSE [err |-> "",
        llh |-> IF k = 0 THEN NegInf ELSE LlhAt(x, mu.ver),
        beta |-> Arr("beta", mu.data, k, 1, mu.ver)]

\* ------------------------------------------------------- Bound Estimator
\* a = a2/2, c = c2/2, r = R/1000; each result is a ratio of integers.
\*   (r*c - a)/(r*(1-r)) = 500*(R*c2 - 1000*a2) / (R*(1000 - R))
lower_bound(a2, c2, R) ==
  <<(R * c2 - 1000 * a2) * (500 * (c2 - a2) + 1000 - R),
    R * (1000 - R) * (c2 - a2)>>
\* bound = pre * (1 + sqrt(rad))
bound(a2, c2, R) ==
  [pre |-> <<250 * (R * c2 - 1000 * a2), R * (1000 - R)>>,
   rad |-> <<1000000 * a2 * (c2 - a2) + 8 * (c2 + 2) * R * (1000 - R),
             1000000 * a2 * (c2 - a2)>>]
upper_bound(a2, c2, R) ==
  <<(R * c2 - 1000 * a2) * (500 * a2 + R), R * (1000 - R) * a2>>
ZeroBounds(k) ==
  [j \in 1 .. k |-> [lower |-> <<0, 1>>, central |-> [pre |-> <<0, 1>>, rad |-> <<0, 1>>],
                     upper |-> <<0, 1>>]]

\* ------------------------------------------------------ Maximization step
\* The largest eigenvalue of component j's scatter matrix, in thousandths.
EigOf(x, ver, j) == EvSeq[((x.ev + ver + j) % Len(EvSeq)) + 1]

\* r = 0.99 if r > 0.999 else r
clamp(r) == IF r > 999 THEN 990 ELSE r

m_step_stale(x, mu, b, k, p) ==
  [mu |-> mu, kappa |-> Arr("central", mu.data, k, 1, mu.ver),
   pi |-> Arr("mean(beta)", mu.data, k, 1, mu.ver),
   bounds |-> ZeroBounds(k), r_args |-> [j \in 1 .. k |-> 0]]
\* mu is overwritten row by row; kappa, pi and bounds are new arrays.
m_step(x, mu, b, k, p) ==
  LET r == [j \in 1 .. k |-> clamp(EigOf(x, b.ver, j))]
      new == IF k >= 1 THEN b.ver + 1 ELSE mu.ver
  IN [mu |-> [mu EXCEPT !.ver = new],
      kappa |-> Arr("central", mu.data, k, 1, new),
      pi |-> Arr("mean(beta)", mu.data, k, 1, new),
      bounds |-> [j \in 1 .. k |->
                    [lower |-> lower_bound(1, p, r[j]), central |-> bound(1, p, r[j]),
                     upper |-> upper_bound(1, p, r[j])]],
      r_args |-> r]

\* ------------------------------------------------------------ convergence
\* (cur - prev)/abs(prev) < tol in IEEE arithmetic: a division by zero gives
\* an infinity or nan, and every comparison with nan is false.
RelChangeBelow(cur, prv, tol) ==
  IF prv = NegInf THEN FALSE
  ELSE IF cur = NegInf THEN TRUE
  ELSE IF prv = 0 THEN cur - prv < 0
  ELSE (cur - prv) * tol[2] < tol[1] * Abs(prv)
\* cur - prev > 0
Increased(cur, prv) ==
  IF cur = NegInf THEN FALSE
  ELSE IF prv = NegInf THEN TRUE
  ELSE cur - prv > 0

Verdict(c, s) == [converged |-> c, state |-> s]
\* convergence with the test of the change written >= 0
convergence_nonneg(l, i, maxiter, tol) ==
  IF i > 0 /\ RelChangeBelow(l[i], l[i - 1], tol)
  THEN IF ~(l[i] < l[i - 1])
       THEN Verdict(i, "CONVERGED")
       ELSE Verdict(i - 1, "CONVERGED")
  ELSE IF i >= maxiter - 1 THEN Verdict(i, "MAX_ITER_REACHED")
  ELSE Verdict(-1, "ITERATING")
\* convergence with the cap tested one iteration late
convergence_late_cap(l, i, maxiter, tol) ==
  IF i > 0 /\ RelChangeBelow(l[i], l[i - 1], tol)
  THEN IF Increased(l[i], l[i - 1])
       THEN Verdict(i, "CONVERGED")
       ELSE Verdict(i - 1, "CONVERGED")
  ELSE IF i >= maxiter THEN Verdict(i, "MAX_ITER_REACHED")
  ELSE Verdict(-1, "ITERATING")
\* convergence without the roll back
convergence_no_rollback(l, i, maxiter, tol) ==
  IF i > 0 /\ RelChangeBelow(l[i], l[i - 1], tol)
  THEN Verdict(i, "CONVERGED")
  ELSE IF i >= maxiter - 1 THEN Verdict(i, "MAX_ITER_REACHED")
  ELSE Verdict(-1, "ITERATING")
convergence(l, i, maxiter, tol) ==
  IF i > 0 /\ RelChangeBelow(l[i], l[i - 1], tol)
  THEN IF Increased(l[i], l[i - 1])
       THEN Verdict(i, "CONVERGED")
       ELSE Verdict(i - 1, "CONVERGED")
  ELSE IF i >= maxiter - 1 THEN Verdict(i, "MAX_ITER_REACHED")
  ELSE Verdict(-1, "ITERATING")

\* ------------------------------------------------------------------ calls
\* A call of wmm_fit: its arguments and its observations.  maxiter is the
\* length of the landscape l, q is the number of columns of init['mu'].
CallOf(k, t, sd, md, q, p, l, e) ==
  [args |-> [k |-> k, maxiter |-> Len(l), tol |-> t, seed |-> sd, init |-> md,
             q |-> IF md = "dict" THEN q ELSE p],
   X |-> [p |-> p, llh |-> l, ev |-> e]]

Landscapes == UNION {[1 .. n -> LlhVals] : n \in 1 .. MaxIter}

\* Valid calls on three-dimensional data: every landscape, every tolerance,
\* every initialiser.
EngineCalls ==
  { CallOf(k, t, 0, md, 3, 3, l, e) :
      k \in 1 .. MaxK, t \in TolVals, md \in Modes, l \in Landscapes, e \in 0 .. 1 }

\* Calls with every k, dimensionality, initialiser and seed, the invalid ones
\* included, on a flat landscape.
ValidationCalls ==
  { CallOf(k, <<3, 2>>, sd, md, q, p, [n \in 1 .. m |-> -1], 0) :
      k \in -1 .. MaxK, sd \in Seeds, md \in Modes, q \in Dims, p \in Dims,
      m \in 1 .. MaxIter }

Calls == EngineCalls \cup ValidationCalls

CallerHeap(a) ==
  LET rows == IF a.k >= 1 THEN a.k ELSE 1
  IN [c \in Cells |->
        IF a.init # "dict" THEN NoArr
        ELSE IF c = "init_mu" THEN Arr("caller_mu", <<>>, rows, a.q, 0)
        ELSE IF c = "init_kappa" THEN Arr("caller_kappa", <<>>, rows, 1, 0)
        ELSE IF c = "init_pi" THEN Arr("caller_pi", <<>>, rows, 1, 0)
        ELSE NoArr]

NoParams == [mu |-> NoArr, kappa |-> NoArr, pi |-> NoArr]
Params == [mu |-> heap[ref.mu], kappa |-> heap[ref.kappa], pi |-> heap[ref.pi]]

\* The state in which wmm_fit is called with c, the generator being in s.
Enter(c, s) ==
  /\ pc = "call"
  /\ args = c.args
  /\ X = c.X
  /\ rng = s
  /\ heap = CallerHeap(c.args)
  /\ ref = [mu |-> "mu", kappa |-> "kappa", pi |-> "pi"]
  /\ llh = <<>> /\ Mu = <<>> /\ Kappa = <<>> /\ Pi = <<>> /\ Bounds = <<>>
  /\ iter = 0 /\ converged = -1
  /\ beta = NoArr /\ bounds = <<>> /\ r_args = <<>>
  /\ state = "INIT" /\ err = ""
  /\ out = <<>>
  /\ pre = [X |-> c.X, rng |-> s, heap |-> CallerHeap(c.args)]
  /\ mu0 = NoParams
  /\ llh_under = <<>>
  /\ e_calls = 0

Init ==
  /\ \E c \in Calls, s \in RngStates : Enter(c, s)
  /\ prev = <<>>

\* ---------------------------------------------------------------- actions
\* line 51: np.random.seed(seed)
Seed ==
  /\ pc = "call"
  /\ \E s \in np_random_seed(rng, args.seed) : rng' = s
  /\ pc' = "init"
  /\ UNCHANGED <<args, X, heap, ref, llh, Mu, Kappa, Pi, Bounds, iter, converged,
                 beta, bounds, r_args, state, err, out, pre, mu0, llh_under,
                 e_calls, prev>>

\* What lines 57-70 leave: the exception, or the heap, the bindings of mu,
\* kappa and pi, and the generator state.
Initialised(a, x, h, s) ==
  LET own == [mu |-> "mu", kappa |-> "kappa", pi |-> "pi"]
      made(i) == [err |-> i.err,
                  heap |-> [h EXCEPT !["mu"] = i.mu, !["kappa"] = i.kappa, !["pi"] = i.pi],
                  ref |-> own, rng |-> i.rng]
  IN IF a.init = "dict"
     THEN LET d == init_from_dict(h)
          IN [err |-> "", heap |-> d.heap, ref |-> d.ref, rng |-> s]
     ELSE IF a.init = "spiral" /\ x.p # 3
     THEN [err |-> "AssertionError", heap |-> h, ref |-> own, rng |-> s]
     ELSE IF a.init = "spiral" \/ (a.init = "none" /\ x.p = 3)
     THEN made(golden_spiral_init(a.k, s))
     ELSE made(random_init(a.k, x.p, s))

\* lines 54-80: initialisation, then the allocation of the history buffers
Initialise ==
  /\ pc = "init"
  /\ LET i == Initialised(args, X, heap, rng)
         mu == i.heap[i.ref.mu]
         slots == 0 .. (args.maxiter - 1)
     IN IF i.err # ""
        THEN /\ pc' = "error"
             /\ err' = i.err
             /\ UNCHANGED <<rng, heap, ref, llh, Mu, Kappa, Pi, Bounds, state, mu0>>
        ELSE /\ pc' = "e_step"
             /\ err' = err
             /\ rng' = i.rng
             /\ heap' = i.heap
             /\ ref' = i.ref
             /\ llh' = [n \in slots |-> 0]
             /\ Mu' = [n \in slots |-> np_zeros(mu.rows, mu.cols)]
             /\ Kappa' = [n \in slots |-> np_zeros(i.heap[i.ref.kappa].rows, 1)]
             /\ Pi' = [n \in slots |-> np_zeros(i.heap[i.ref.pi].rows, 1)]
             /\ Bounds' = [n \in slots |-> ZeroBounds(i.heap[i.ref.kappa].rows)]
             /\ state' = "ITERATING"
             /\ mu0' = [mu |-> mu, kappa |-> i.heap[i.ref.kappa], pi |-> i.heap[i.ref.pi]]
  /\ UNCHANGED <<args, X, iter, converged, beta, bounds, r_args, out, pre,
                 llh_under, e_calls, prev>>

\* line 84: beta, llh[iter] = e_step(X, mu, kappa, pi, k, p)
EStep ==
  /\ pc = "e_step"
  /\ e_calls' = e_calls + 1
  /\ LET e == e_step(X, heap[ref.mu], heap[ref.kappa], heap[ref.pi], args.k, X.p)
     IN IF e.err # ""
        THEN pc' = "error" /\ err' = e.err /\ UNCHANGED <<llh, beta, llh_under>>
        ELSE IF iter \notin DOMAIN llh
        THEN pc' = "error" /\ err' = "IndexError" /\ UNCHANGED <<llh, beta, llh_under>>
        ELSE /\ pc' = "m_step"
             /\ err' = err
             /\ llh' = [llh EXCEPT ![iter] = e.llh]
             /\ beta' = e.beta
             /\ llh_under' = Append(llh_under, Params)
  /\ UNCHANGED <<args, X, rng, heap, ref, Mu, Kappa, Pi, Bounds, iter, converged,
                 bounds, r_args, state, out, pre, mu0, prev>>

\* line 85: mu, kappa, pi, bounds = m_step(X, mu, beta, k, N, p, gamma)
MStep ==
  /\ pc = "m_step"
  /\ LET m == m_step(X, heap[ref.mu], beta, args.k, X.p)
     IN /\ heap' = [c \in Cells |->
                      IF c = ref.mu THEN m.mu
                      ELSE IF c = "kappa" THEN m.kappa
                      ELSE IF c = "pi" THEN m.pi
                      ELSE heap[c]]
        /\ ref' = [ref EXCEPT !.kappa = "kappa", !.pi = "pi"]
        /\ bounds' = m.bounds
        /\ r_args' = m.r_args
  /\ pc' = "check"
  /\ UNCHANGED <<args, X, rng, llh, Mu, Kappa, Pi, Bounds, iter, converged, beta,
                 state, err, out, pre, mu0, llh_under, e_calls, prev>>

\* lines 86-91: the convergence check, the snapshot, iter += 1
Check ==
  /\ pc = "check"
  /\ LET v == convergence(llh, iter, args.maxiter, args.tol)
     IN /\ converged' = v.converged
        /\ state' = v.state
        /\ pc' = IF v.converged < 0 THEN "e_step" ELSE "return"
  /\ Mu' = [Mu EXCEPT ![iter] = heap[ref.mu]]
  /\ Kappa' = [Kappa EXCEPT ![iter] = heap[ref.kappa]]
  /\ Bounds' = [Bounds EXCEPT ![iter] = bounds]
  /\ Pi' = [Pi EXCEPT ![iter] = heap[ref.pi]]
  /\ iter' = iter + 1
  /\ UNCHANGED <<args, X, rng, heap, ref, llh, beta, bounds, r_args, err, out, pre,
                 mu0, llh_under, e_calls, prev>>

\* lines 93-101: the history is trimmed to 0 .. converged and returned
Trim(h, c, return_steps) ==
  [n \in (IF return_steps THEN 0 .. c ELSE {c}) |-> h[n]]

Return ==
  /\ pc = "return"
  /\ \E return_steps \in BOOLEAN :
       out' = << [steps |-> return_steps,
                  Mu |-> Trim(Mu, converged, return_steps),
                  Kappa |-> Trim(Kappa, converged, return_steps),
                  Pi |-> Trim(Pi, converged, return_steps),
                  llh |-> Trim(llh, converged, TRUE),
                  Bounds |-> Trim(Bounds, converged, return_steps)] >>
  /\ pc' = "done"
  /\ UNCHANGED <<args, X, rng, heap, ref, llh, Mu, Kappa, Pi, Bounds, iter,
                 converged, beta, bounds, r_args, state, err, pre, mu0, llh_under,
                 e_calls, prev>>

Next == Seed \/ Initialise \/ EStep \/ MStep \/ Check \/ Return

Spec == Init /\ [][Next]_vars

\* ------------------------------------------------- two calls in one process
\* Calls with random initialisation on two-dimensional data, with and
\* without a seed.
RepeatCalls ==
  { CallOf(k, <<3, 2>>, sd, "random", 2, 2, l, 0) :
      k \in 1 .. MaxK, sd \in Seeds, l \in [1 .. 2 -> {-1, 0}] }

InitRepeat ==
  /\ \E c \in RepeatCalls, s \in RngStates : Enter(c, s)
  /\ prev = <<>>

\* Other code of the process draws from the generator before wmm_fit is
\* called.
OtherRngUse ==
  /\ pc = "call"
  /\ rng' = RngAdvance(rng)
  /\ pre' = [pre EXCEPT !.rng = rng']
  /\ UNCHANGED <<pc, args, X, heap, ref, llh, Mu, Kappa, Pi, Bounds, iter, converged,
                 beta, bounds, r_args, state, err, out, mu0, llh_under, e_calls,
                 prev>>

\* wmm_fit is called a second time; the generator is left as the first call
\* left it.
CallAgain ==
  /\ pc \in {"done", "error"}
  /\ prev = <<>>
  /\ prev' = << [pc |-> pc, args |-> args, X |-> X, pre |-> pre, mu0 |-> mu0,
                 llh |-> llh, Mu |-> Mu, Kappa |-> Kappa, Pi |-> Pi,
                 Bounds |-> Bounds, converged |-> converged, state |-> state] >>
  /\ \E c \in RepeatCalls :
       /\ pc' = "call"
       /\ args' = c.args
       /\ X' = c.X
       /\ heap' = CallerHeap(c.args)
       /\ pre' = [X |-> c.X, rng |-> rng, heap |-> CallerHeap(c.args)]
  /\ ref' = [mu |-> "mu", kappa |-> "kappa", pi |-> "pi"]
  /\ llh' = <<>> /\ Mu' = <<>> /\ Kappa' = <<>> /\ Pi' = <<>> /\ Bounds' = <<>>
  /\ iter' = 0 /\ converged' = -1
  /\ beta' = NoArr /\ bounds' = <<>> /\ r_args' = <<>>
  /\ state' = "INIT" /\ err' = ""
  /\ out' = <<>>
  /\ mu0' = NoParams
  /\ llh_under' = <<>>
  /\ e_calls' = 0
  /\ UNCHANGED rng

NextRepeat == Next \/ OtherRngUse \/ CallAgain

SpecRepeat == InitRepeat /\ [][NextRepeat]_vars

\* ------------------------------------------------------------ the claims
\* The convergence check ran last at iteration iter - 1, and converged and
\* state hold its verdict.
JustChecked == pc = "return" \/ (pc = "e_step" /\ iter >= 1)
Last == iter - 1
BelowTolAtLast ==
  JustChecked /\ Last >= 1 /\ RelChangeBelow(llh[Last], llh[Last - 1], args.tol)
Snapshot(n) == [mu |-> Mu[n], kappa |-> Kappa[n], pi |-> Pi[n]]
InvalidInput ==
  \/ args.k <= 0
  \/ args.init = "dict" /\ args.q # X.p
  \/ args.init = "spiral" /\ X.p # 3

\* C1 as stated: when the relative change at iteration i >= 1 is below the
\* tolerance, a change >= 0 (zero included) ends the fit CONVERGED at i and a
\* negative change ends it CONVERGED at i - 1; iteration 0 never converges.
C1_AsStated ==
  /\ BelowTolAtLast =>
       /\ state = "CONVERGED"
       /\ llh[Last] >= llh[Last - 1] => converged = Last
       /\ llh[Last] < llh[Last - 1] => converged = Last - 1
  /\ JustChecked /\ Last = 0 => state # "CONVERGED"

\* C1 amended: when the relative change at iteration i >= 1 is below the
\* tolerance, a change > 0 ends the fit CONVERGED at i, and a change that is
\* zero or negative ends it CONVERGED at i - 1; iteration 0 never converges.
C1_Convergence ==
  /\ BelowTolAtLast =>
       /\ state = "CONVERGED"
       /\ pc = "return"
       /\ llh[Last] > llh[Last - 1] => converged = Last
       /\ llh[Last] <= llh[Last - 1] => converged = Last - 1
  /\ JustChecked /\ Last = 0 => state # "CONVERGED"

C1_Witness ==
  /\ BelowTolAtLast
  /\ llh[Last] = llh[Last - 1]
  /\ converged = Last - 1
  /\ state = "CONVERGED"

\* C2: for maxiter >= 1 the EM loop runs at most maxiter cycles and ends
\* CONVERGED or MAX_ITER_REACHED with a terminal index in 0 .. maxiter - 1;
\* nothing is written past index maxiter - 1 of a history buffer; reaching
\* the cap is no error and returns a log-likelihood history of exactly
\* maxiter entries.
C2_Termination ==
  /\ e_calls <= args.maxiter
  /\ iter <= args.maxiter
  /\ err # "IndexError"
  /\ pc \in {"m_step", "check"} => iter \in DOMAIN llh /\ iter \in DOMAIN Mu
  /\ pc \in {"e_step", "m_step", "check"} => state = "ITERATING" /\ converged = -1
  /\ pc \in {"return", "done"} =>
       /\ state \in {"CONVERGED", "MAX_ITER_REACHED"}
       /\ 0 <= converged /\ converged <= args.maxiter - 1
       /\ err = ""
  /\ pc = "done" /\ state = "MAX_ITER_REACHED" =>
       /\ iter = args.maxiter
       /\ DOMAIN out[1].llh = 0 .. (args.maxiter - 1)

C2_Witness ==
  /\ pc = "done"
  /\ state = "MAX_ITER_REACHED"
  /\ args.maxiter >= 2
  /\ e_calls = args.maxiter
  /\ converged = args.maxiter - 1

\* C3: with a tolerance >= 0, a log-likelihood lower than the one before it
\* is detected at its iteration, ends the fit there and rolls it back by one;
\* so a decrease is only ever at the last iteration executed, and the
\* log-likelihood history returned is non-decreasing.
C3_Monotone ==
  args.tol[1] >= 0 =>
    /\ JustChecked /\ Last >= 1 /\ llh[Last] < llh[Last - 1] =>
         pc = "return" /\ state = "CONVERGED" /\ converged = Last - 1
    /\ \A n \in 1 .. (iter - 1) :
         llh[n] < llh[n - 1] => n = iter - 1 /\ pc \in {"return", "done"}
    /\ pc = "done" =>
         \A n \in DOMAIN out[1].llh :
           n >= 1 => out[1].llh[n] >= out[1].llh[n - 1]

C3_Witness ==
  /\ pc = "done"
  /\ args.tol[1] >= 0
  /\ iter >= 3
  /\ llh[iter - 1] < llh[iter - 2]
  /\ converged = iter - 2
  /\ DOMAIN out[1].llh = 0 .. (iter - 2)

\* C5 as stated: an invalid input (k <= 0, an init dict whose mean directions
\* have another dimensionality than the observations, the spiral for
\* dimensionality # 3) is reported as an error before the first Expectation
\* step: e_step is never entered, and the fit is over once it initialised.
C5_RejectedBeforeEStep ==
  InvalidInput => e_calls = 0 /\ pc \in {"call", "init", "error"}

\* C6 as stated: when the fit rejects an invalid input, everything visible
\* outside the call, the process-wide generator included, is as it was
\* before the call.
C6_RejectedWithoutMutation ==
  pc = "error" /\ InvalidInput =>
    /\ rng = pre.rng
    /\ X = pre.X
    /\ \A c \in {"init_mu", "init_kappa", "init_pi"} : heap[c] = pre.heap[c]

\* C7: the caller's mean directions, concentrations and mixing weights and
\* the observation set hold, at every point of the fit, the values they held
\* when it was called.
C7_BorrowedUnchanged ==
  /\ X = pre.X
  /\ \A c \in {"init_mu", "init_kappa", "init_pi"} : heap[c] = pre.heap[c]

C7_Witness ==
  /\ pc = "done"
  /\ args.init = "dict"
  /\ iter >= 2
  /\ heap[ref.mu].ver >= 2
  /\ heap["init_mu"].ver = 0

\* C8 as stated: the r each component's bound functions are called with is
\* at most 0.99.
C8_ClampedAt099 ==
  \A j \in DOMAIN r_args : r_args[j] <= 990

\* C9 as stated: the spiral puts the third coordinate of direction i at
\* 1 - 2(i + 0.5)/k.
C9_AsStated ==
  mu0.mu.kind = "spiral" =>
    \A j \in 1 .. args.k :
      RatEq(mu0.mu.data[j], <<args.k - (2 * (j - 1) + 1), args.k>>)

\* C9 amended: the spiral puts the third coordinate of direction i at
\* 1 - (i + 0.5)/k, so the k directions lie strictly between the equator and
\* the north pole, on the upper hemisphere only.
C9_SpiralHeights ==
  mu0.mu.kind = "spiral" =>
    /\ Len(mu0.mu.data) = args.k
    /\ \A j \in 1 .. args.k :
         /\ RatEq(mu0.mu.data[j], <<2 * args.k - (2 * (j - 1) + 1), 2 * args.k>>)
         /\ RatLess(<<0, 1>>, mu0.mu.data[j])
         /\ RatLess(mu0.mu.data[j], <<1, 1>>)

C9_Witness ==
  /\ mu0.mu.kind = "spiral"
  /\ args.k >= 2
  /\ pc = "e_step"

C4_Reproducible ==
  /\ pc = "done"
  /\ Len(prev) = 1
  /\ prev[1].pc = "done"
  /\ args = prev[1].args
  /\ X = prev[1].X
  /\ args.init = "random"
  /\ args.seed # NoSeed
  => /\ mu0 = prev[1].mu0
     /\ llh = prev[1].llh
     /\ Mu = prev[1].Mu
     /\ Kappa = prev[1].Kappa
     /\ Pi = prev[1].Pi
     /\ Bounds = prev[1].Bounds
     /\ converged = prev[1].converged
     /\ state = prev[1].state

C4_Witness ==
  /\ pc = "done"
  /\ Len(prev) = 1
  /\ prev[1].pc = "done"
  /\ args = prev[1].args
  /\ X = prev[1].X
  /\ args.init = "random"
  /\ args.seed # NoSeed
  /\ pre.rng # prev[1].pre.rng
  /\ pre.rng # args.seed % RngMod
  /\ mu0 = prev[1].mu0
  /\ iter >= 2

====
